---------------------------- MODULE Spec2Model ----------------------------
(***************************************************************************)
(* send-anywhere-lite: two browser clients find each other through a       *)
(* socket.io relay by a room code, negotiate a WebRTC peer connection      *)
(* (offer / answer / ICE) and stream a file over one ordered data channel  *)
(* as a JSON metadata frame followed by 64 KiB binary frames.              *)
(*                                                                         *)
(* Modelled here: the relay server, createWebRTCConnection, setupReceive    *)
(* and sendFileOverRTC (client/src/webrtc.js) and the application entry    *)
(* points that drive them (startSend, startReceive, sendFile).             *)
(*                                                                         *)
(*   Spec, FairSpec  a session from page load to the open channel          *)
(*   XferSpec        transfers over the established channel                *)
(*   XferFairSpec    the same, with timers, reads and the transport fair   *)
(*   SendSpec        sendFileOverRTC on a channel in any readyState        *)
(*   RecvSpec        setupReceive fed by an arbitrary remote peer          *)
(*   RelaySpec       the relay fed by arbitrary socket.io clients          *)
(*   AppSpec         one page through several sessions, timers and resets  *)
(***************************************************************************)
EXTENDS Integers, Sequences, FiniteSets, TLC

(***************************************************************************)
(* Bounds of the model.                                                    *)
(***************************************************************************)
\* local ICE candidates a peer connection discovers
MaxCand == 2
\* clicks on "Send File" in one session
MaxSends == 2
\* number of 64 KiB chunks of the largest file
MaxChunks == 9
\* frames an arbitrary remote peer pushes into a receiver (RecvSpec)
MaxFrames == 4
\* events the relay is sent by arbitrary sockets (RelaySpec)
MaxEmits == 4
\* sessions one page starts (AppSpec)
MaxSessions == 2

(***************************************************************************)
(* Program constants.                                                      *)
(***************************************************************************)
\* webrtc.js:149  const CHUNK_SIZE = 64 * 1024
CHUNK_SIZE == 65536
\* webrtc.js:154  dc.bufferedAmount > CHUNK_SIZE * 8
Ceiling == CHUNK_SIZE * 8

Clients == {"sender", "receiver"}
\* the isReceiver argument of createWebRTCConnection
isReceiver(p) == p = "receiver"
Peer(p) == IF p = "sender" THEN "receiver" ELSE "sender"
Codes == {"111111", "222222"}
\* App.generateCode: a random 6-digit string; which one is immaterial, the receiver
\* types this code or another one
generateCode == "111111"

NoDesc == [type |-> "none", by |-> "none"]
NoHandler == [h |-> "none"]
NoMeta == [set |-> FALSE]
\* App.jsx:31-44  the initial values of the state hooks; timeoutId 0 is null
NoUi == [mode |-> "none", status |-> "idle", error |-> "", timeoutId |-> 0,
         isReadyToSend |-> FALSE, files |-> 0]

VARIABLES
  \* ---- application (App component state and closures)
  rtc,          \* rtc[p]: the App holds a connection object (rtc # null)
  code,         \* code[p]: room code of p's session
  status,       \* status[p]: the App's status string
  clicks,       \* number of send requests made so far
  \* ---- signaling transport and relay
  toServer,     \* toServer[p]: events p emitted, not yet handled by the relay
  toClient,     \* toClient[p]: events the relay emitted to p, not yet handled
  rooms,        \* rooms[c]: sockets that joined room c
  joined,       \* order in which the relay handled the join-room events
  \* ---- RTCPeerConnection of each client
  localDesc, remoteDesc,
  chain,        \* chain[p]: pending asynchronous pc operations, oldest first
  remoteCands,  \* remote ICE candidates added, in order
  gathered,     \* local ICE candidates discovered so far
  gatherDone,   \* the end-of-candidates event was dispatched
  \* ---- data channel end points
  dc,           \* dc[p]: "null" (no channel) or the channel's readyState
  onopen,       \* dc[p].onopen handler currently installed
  created,      \* channels p made with pc.createDataChannel
  acquired,     \* channels handed to p by its pc.ondatachannel
  \* ---- observation of callbacks
  readyCalls,   \* invocations of the caller's onChannelOpen
  opened,       \* open events dispatched on p's channel
  pjRecv,       \* peer-joined events handled by p
  offersSent,   \* offer signals emitted by p
  offersRecv,   \* offer signals handled by p
  answersSent,  \* answer signals emitted by p
  caught,       \* failures logged by the signal handler's catch
  unhandled,    \* failures that escaped a handler
  \* ---- channel sender -> receiver
  dcSent,       \* every frame written with dc.send, in order
  nTx,          \* frames that left the sender's buffer
  nRx,          \* frames dispatched to the receiver's onmessage
  calls,        \* sendFileOverRTC invocations
  \* ---- setupReceive closure
  meta, receivedBytes, chunks,
  completions,  \* onFileReceived invocations
  rprogress,    \* onProgress invocations
  \* ---- one page through several sessions (AppSpec)
  ui,           \* the App component's state hooks
  sessions      \* every session the page started: timer, connection, channel

appVars == <<rtc, code, status, clicks>>
sigVars == <<toServer, toClient, rooms, joined>>
pcVars == <<localDesc, remoteDesc, chain, remoteCands, gathered, gatherDone>>
dcVars == <<dc, onopen, created, acquired>>
logVars == <<readyCalls, opened, pjRecv, offersSent, offersRecv, answersSent, caught,
            unhandled>>
xferVars == <<dcSent, nTx, nRx, calls>>
recvVars == <<meta, receivedBytes, chunks, completions, rprogress>>
pageVars == <<ui, sessions>>
vars == <<appVars, sigVars, pcVars, dcVars, logVars, xferVars, recvVars, pageVars>>

(***************************************************************************)
(* State after page load: no session, relay with empty rooms.              *)
(***************************************************************************)
InitBut(readyStates) ==
  /\ rtc = [p \in Clients |-> FALSE]
  /\ code = [p \in Clients |-> ""]
  /\ status = [p \in Clients |-> "idle"]
  /\ clicks = 0
  /\ toServer = [p \in Clients |-> <<>>]
  /\ toClient = [p \in Clients |-> <<>>]
  /\ rooms = [c \in Codes |-> {}]
  /\ joined = <<>>
  /\ localDesc = [p \in Clients |-> NoDesc]
  /\ remoteDesc = [p \in Clients |-> NoDesc]
  /\ chain = [p \in Clients |-> <<>>]
  /\ remoteCands = [p \in Clients |-> <<>>]
  /\ gathered = [p \in Clients |-> 0]
  /\ gatherDone = [p \in Clients |-> FALSE]
  /\ dc = readyStates
  /\ onopen = [p \in Clients |-> NoHandler]
  /\ created = [p \in Clients |-> IF readyStates[p] = "null" THEN 0 ELSE 1]
  /\ acquired = [p \in Clients |-> 0]
  /\ readyCalls = [p \in Clients |-> 0]
  /\ opened = [p \in Clients |-> 0]
  /\ pjRecv = [p \in Clients |-> 0]
  /\ offersSent = [p \in Clients |-> 0]
  /\ offersRecv = [p \in Clients |-> 0]
  /\ answersSent = [p \in Clients |-> 0]
  /\ caught = [p \in Clients |-> 0]
  /\ unhandled = [p \in Clients |-> 0]
  /\ dcSent = <<>>
  /\ nTx = 0
  /\ nRx = 0
  /\ calls = <<>>
  /\ meta = NoMeta
  /\ receivedBytes = 0
  /\ chunks = <<>>
  /\ completions = <<>>
  /\ rprogress = <<>>
  /\ ui = NoUi
  /\ sessions = <<>>

Init == InitBut([p \in Clients |-> "null"])

(***************************************************************************)
(* Signaling client: socket.emit("signal", {code, data}).                  *)
(***************************************************************************)
SignalMsg(p, data) == [ev |-> "signal", code |-> code[p], data |-> data]

(***************************************************************************)
(* createWebRTCConnection(socket, code, isReceiver, ...): the sender       *)
(* creates its channel eagerly and installs the onopen handler that calls  *)
(* onChannelOpen; both roles emit join-room.                               *)
(***************************************************************************)
\* (mutant) the offer is created at session start instead of on peer-joined
createWebRTCConnectionEager(p, c) ==
  /\ dc' = [dc EXCEPT ![p] = IF ~isReceiver(p) THEN "connecting" ELSE @]
  /\ onopen' = [onopen EXCEPT ![p] = IF ~isReceiver(p) THEN [h |-> "lib"] ELSE @]
  /\ created' = [created EXCEPT ![p] = IF ~isReceiver(p) THEN @ + 1 ELSE @]
  /\ acquired' = acquired
  /\ toServer' = [toServer EXCEPT ![p] = Append(@, [ev |-> "join-room", code |-> c])]
  /\ chain' = [chain EXCEPT ![p] =
       IF ~isReceiver(p)
         THEN Append(@, [op |-> "createOffer", h |-> "peer-joined", arg |-> NoDesc])
         ELSE @]

\* (mutant) the channel is created whatever the role
createWebRTCConnectionAnyRole(p, c) ==
  /\ dc' = [dc EXCEPT ![p] = "connecting"]
  /\ onopen' = [onopen EXCEPT ![p] = [h |-> "lib"]]
  /\ created' = [created EXCEPT ![p] = @ + 1]
  /\ acquired' = acquired
  /\ toServer' = [toServer EXCEPT ![p] = Append(@, [ev |-> "join-room", code |-> c])]
  /\ chain' = chain

createWebRTCConnection(p, c) ==
  /\ dc' = [dc EXCEPT ![p] = IF ~isReceiver(p) THEN "connecting" ELSE @]
  /\ onopen' = [onopen EXCEPT ![p] = IF ~isReceiver(p) THEN [h |-> "lib"] ELSE @]
  /\ created' = [created EXCEPT ![p] = IF ~isReceiver(p) THEN @ + 1 ELSE @]
  /\ acquired' = acquired
  /\ toServer' = [toServer EXCEPT ![p] = Append(@, [ev |-> "join-room", code |-> c])]
  /\ chain' = chain

\* App.startSend: generateCode, createWebRTCConnection(socket, newCode, false, ...)
startSend(p) ==
  /\ ~isReceiver(p)
  /\ ~rtc[p]
  /\ code' = [code EXCEPT ![p] = generateCode]
  /\ createWebRTCConnection(p, generateCode)
  /\ rtc' = [rtc EXCEPT ![p] = TRUE]
  /\ status' = [status EXCEPT ![p] = "waiting-for-receiver"]
  /\ UNCHANGED <<pageVars, clicks, toClient, rooms, joined, localDesc, remoteDesc, remoteCands,
                 gathered, gatherDone, logVars, xferVars, recvVars>>

\* App.startReceive: the user typed a 6-digit code
startReceive(p) ==
  /\ isReceiver(p)
  /\ ~rtc[p]
  /\ \E c \in Codes :
       /\ code' = [code EXCEPT ![p] = c]
       /\ createWebRTCConnection(p, c)
  /\ rtc' = [rtc EXCEPT ![p] = TRUE]
  /\ status' = [status EXCEPT ![p] = "connecting"]
  /\ UNCHANGED <<pageVars, clicks, toClient, rooms, joined, localDesc, remoteDesc, remoteCands,
                 gathered, gatherDone, logVars, xferVars, recvVars>>

(***************************************************************************)
(* Relay (server): socket.to(code) addresses every socket of the room but  *)
(* the emitting one.                                                       *)
(***************************************************************************)
Others(c, p) == rooms'[c] \ {p}

\* (mutant) peer-joined is emitted to the whole room, the joiner included
RelayJoinWholeRoom(p) ==
  /\ toServer[p] # <<>>
  /\ Head(toServer[p]).ev = "join-room"
  /\ LET c == Head(toServer[p]).code IN
       /\ rooms' = [rooms EXCEPT ![c] = @ \cup {p}]
       /\ toClient' = [q \in Clients |->
            IF q \in rooms'[c]
              THEN Append(toClient[q], [ev |-> "peer-joined"])
              ELSE toClient[q]]
  /\ joined' = Append(joined, p)
  /\ toServer' = [toServer EXCEPT ![p] = Tail(@)]
  /\ UNCHANGED <<pageVars, appVars, pcVars, dcVars, logVars, xferVars, recvVars>>

RelayJoin(p) ==
  /\ toServer[p] # <<>>
  /\ Head(toServer[p]).ev = "join-room"
  /\ LET c == Head(toServer[p]).code IN
       /\ rooms' = [rooms EXCEPT ![c] = @ \cup {p}]
       /\ toClient' = [q \in Clients |->
            IF q \in Others(c, p)
              THEN Append(toClient[q], [ev |-> "peer-joined"])
              ELSE toClient[q]]
  /\ joined' = Append(joined, p)
  /\ toServer' = [toServer EXCEPT ![p] = Tail(@)]
  /\ UNCHANGED <<pageVars, appVars, pcVars, dcVars, logVars, xferVars, recvVars>>

RelaySignal(p) ==
  /\ toServer[p] # <<>>
  /\ Head(toServer[p]).ev = "signal"
  /\ LET m == Head(toServer[p]) IN
       /\ rooms' = rooms
       /\ toClient' = [q \in Clients |->
            IF q \in Others(m.code, p)
              THEN Append(toClient[q],
                     [ev |-> "signal", data |-> m.data, from |-> p, room |-> m.code])
              ELSE toClient[q]]
  /\ toServer' = [toServer EXCEPT ![p] = Tail(@)]
  /\ UNCHANGED <<pageVars, appVars, joined, pcVars, dcVars, logVars, xferVars, recvVars>>

(***************************************************************************)
(* Client handlers of relay events.  Every pc method returns a promise;    *)
(* the browser runs the operations of one connection in call order         *)
(* (chain[p]); a handler is suspended at its await until the operation at  *)
(* the head of the chain settles.                                          *)
(***************************************************************************)
Op(op, h, arg) == [op |-> op, h |-> h, arg |-> arg]

\* (mutant) the role test of the peer-joined handler inverted
OnPeerJoinedInverted(p) ==
  /\ toClient[p] # <<>>
  /\ Head(toClient[p]).ev = "peer-joined"
  /\ toClient' = [toClient EXCEPT ![p] = Tail(@)]
  /\ pjRecv' = [pjRecv EXCEPT ![p] = @ + 1]
  /\ chain' = [chain EXCEPT ![p] =
       IF isReceiver(p) THEN Append(@, Op("createOffer", "peer-joined", NoDesc)) ELSE @]
  /\ UNCHANGED <<pageVars, appVars, toServer, rooms, joined, localDesc, remoteDesc, remoteCands,
                 gathered, gatherDone, dcVars, readyCalls, opened, offersSent, offersRecv,
                 answersSent, caught, unhandled, xferVars, recvVars>>

\* socket.on("peer-joined", ...)
OnPeerJoined(p) ==
  /\ toClient[p] # <<>>
  /\ Head(toClient[p]).ev = "peer-joined"
  /\ toClient' = [toClient EXCEPT ![p] = Tail(@)]
  /\ pjRecv' = [pjRecv EXCEPT ![p] = @ + 1]
  /\ chain' = [chain EXCEPT ![p] =
       IF ~isReceiver(p) THEN Append(@, Op("createOffer", "peer-joined", NoDesc)) ELSE @]
  /\ UNCHANGED <<pageVars, appVars, toServer, rooms, joined, localDesc, remoteDesc, remoteCands,
                 gathered, gatherDone, dcVars, readyCalls, opened, offersSent, offersRecv,
                 answersSent, caught, unhandled, xferVars, recvVars>>

\* (mutant) a candidate is put in front of the operations that are pending
OnSignalCandidateFirst(p) ==
  /\ toClient[p] # <<>>
  /\ Head(toClient[p]).ev = "signal"
  /\ LET data == Head(toClient[p]).data IN
       chain' = [chain EXCEPT ![p] =
         CASE data.type = "offer" ->
                Append(@, Op("setRemoteDescription", "offer", data.offer))
           [] data.type = "answer" ->
                Append(@, Op("setRemoteDescription", "answer", data.answer))
           [] data.type = "ice" ->
                <<Op("addIceCandidate", "ice", data.candidate)>> \o @
           [] OTHER -> @]
  /\ offersRecv' = [offersRecv EXCEPT ![p] =
       IF Head(toClient[p]).data.type = "offer" THEN @ + 1 ELSE @]
  /\ toClient' = [toClient EXCEPT ![p] = Tail(@)]
  /\ UNCHANGED <<pageVars, appVars, toServer, rooms, joined, localDesc, remoteDesc, remoteCands,
                 gathered, gatherDone, dcVars, readyCalls, opened, pjRecv, offersSent,
                 answersSent, caught, unhandled, xferVars, recvVars>>

\* socket.on("signal", ...): the synchronous part, up to the first await
OnSignal(p) ==
  /\ toClient[p] # <<>>
  /\ Head(toClient[p]).ev = "signal"
  /\ LET data == Head(toClient[p]).data IN
       chain' = [chain EXCEPT ![p] =
         CASE data.type = "offer" ->
                Append(@, Op("setRemoteDescription", "offer", data.offer))
           [] data.type = "answer" ->
                Append(@, Op("setRemoteDescription", "answer", data.answer))
           [] data.type = "ice" ->
                Append(@, Op("addIceCandidate", "ice", data.candidate))
           [] OTHER -> @]
  /\ offersRecv' = [offersRecv EXCEPT ![p] =
       IF Head(toClient[p]).data.type = "offer" THEN @ + 1 ELSE @]
  /\ toClient' = [toClient EXCEPT ![p] = Tail(@)]
  /\ UNCHANGED <<pageVars, appVars, toServer, rooms, joined, localDesc, remoteDesc, remoteCands,
                 gathered, gatherDone, dcVars, readyCalls, opened, pjRecv, offersSent,
                 answersSent, caught, unhandled, xferVars, recvVars>>

\* (mutant) the answer is emitted as soon as it is created, before it is stored
ResolveAnswerEarly(p) ==
  /\ chain[p] # <<>>
  /\ LET o == Head(chain[p])
         rest == Tail(chain[p])
         answer == [type |-> "answer", by |-> p]
         offer == [type |-> "offer", by |-> p]
     IN
       /\ chain' = [chain EXCEPT ![p] =
            CASE o.h = "offer" /\ o.op = "setRemoteDescription" ->
                   Append(rest, Op("createAnswer", "offer", NoDesc))
              [] o.h = "offer" /\ o.op = "createAnswer" ->
                   Append(rest, Op("setLocalDescription", "offer", answer))
              [] o.h = "peer-joined" /\ o.op = "createOffer" ->
                   Append(rest, Op("setLocalDescription", "peer-joined", offer))
              [] OTHER -> rest]
       /\ remoteDesc' = [remoteDesc EXCEPT ![p] =
            IF o.op = "setRemoteDescription" THEN o.arg ELSE @]
       /\ localDesc' = [localDesc EXCEPT ![p] =
            IF o.op = "setLocalDescription" THEN o.arg ELSE @]
       /\ remoteCands' = [remoteCands EXCEPT ![p] =
            IF o.op = "addIceCandidate" THEN Append(@, o.arg) ELSE @]
       /\ toServer' = [toServer EXCEPT ![p] =
            CASE o.h = "offer" /\ o.op = "createAnswer" ->
                   Append(@, SignalMsg(p, [type |-> "answer", answer |-> answer]))
              [] o.h = "peer-joined" /\ o.op = "setLocalDescription" ->
                   Append(@, SignalMsg(p, [type |-> "offer", offer |-> o.arg]))
              [] OTHER -> @]
       /\ offersSent' = [offersSent EXCEPT ![p] =
            IF o.h = "peer-joined" /\ o.op = "setLocalDescription" THEN @ + 1 ELSE @]
       /\ answersSent' = [answersSent EXCEPT ![p] =
            IF o.h = "offer" /\ o.op = "createAnswer" THEN @ + 1 ELSE @]
  /\ UNCHANGED <<pageVars, appVars, toClient, rooms, joined, gathered, gatherDone, dcVars,
                 readyCalls, opened, pjRecv, offersRecv, caught, unhandled, xferVars,
                 recvVars>>

\* the operation at the head of the chain fulfils: the awaiting handler continues
Resolve(p) ==
  /\ chain[p] # <<>>
  /\ LET o == Head(chain[p])
         rest == Tail(chain[p])
         answer == [type |-> "answer", by |-> p]
         offer == [type |-> "offer", by |-> p]
     IN
       /\ chain' = [chain EXCEPT ![p] =
            CASE o.h = "offer" /\ o.op = "setRemoteDescription" ->
                   Append(rest, Op("createAnswer", "offer", NoDesc))
              [] o.h = "offer" /\ o.op = "createAnswer" ->
                   Append(rest, Op("setLocalDescription", "offer", answer))
              [] o.h = "peer-joined" /\ o.op = "createOffer" ->
                   Append(rest, Op("setLocalDescription", "peer-joined", offer))
              [] OTHER -> rest]
       /\ remoteDesc' = [remoteDesc EXCEPT ![p] =
            IF o.op = "setRemoteDescription" THEN o.arg ELSE @]
       /\ localDesc' = [localDesc EXCEPT ![p] =
            IF o.op = "setLocalDescription" THEN o.arg ELSE @]
       /\ remoteCands' = [remoteCands EXCEPT ![p] =
            IF o.op = "addIceCandidate" THEN Append(@, o.arg) ELSE @]
       /\ toServer' = [toServer EXCEPT ![p] =
            CASE o.h = "offer" /\ o.op = "setLocalDescription" ->
                   Append(@, SignalMsg(p, [type |-> "answer", answer |-> o.arg]))
              [] o.h = "peer-joined" /\ o.op = "setLocalDescription" ->
                   Append(@, SignalMsg(p, [type |-> "offer", offer |-> o.arg]))
              [] OTHER -> @]
       /\ offersSent' = [offersSent EXCEPT ![p] =
            IF o.h = "peer-joined" /\ o.op = "setLocalDescription" THEN @ + 1 ELSE @]
       /\ answersSent' = [answersSent EXCEPT ![p] =
            IF o.h = "offer" /\ o.op = "setLocalDescription" THEN @ + 1 ELSE @]
  /\ UNCHANGED <<pageVars, appVars, toClient, rooms, joined, gathered, gatherDone, dcVars,
                 readyCalls, opened, pjRecv, offersRecv, caught, unhandled, xferVars,
                 recvVars>>

\* the operation at the head of the chain rejects: the await throws.  The signal
\* handler catches and logs; the peer-joined handler has no try block.
Reject(p) ==
  /\ chain[p] # <<>>
  /\ LET o == Head(chain[p]) IN
       /\ caught' = [caught EXCEPT ![p] = IF o.h # "peer-joined" THEN @ + 1 ELSE @]
       /\ unhandled' = [unhandled EXCEPT ![p] = IF o.h = "peer-joined" THEN @ + 1 ELSE @]
  /\ chain' = [chain EXCEPT ![p] = Tail(@)]
  /\ UNCHANGED <<pageVars, appVars, sigVars, localDesc, remoteDesc, remoteCands, gathered,
                 gatherDone, dcVars, readyCalls, opened, pjRecv, offersSent, offersRecv,
                 answersSent, xferVars, recvVars>>

\* (mutant) the end-of-candidates event is relayed like a candidate
onicecandidateNullRelayed(p) ==
  /\ localDesc[p] # NoDesc
  /\ ~gatherDone[p]
  /\ \/ /\ gathered[p] < MaxCand
        /\ gathered' = [gathered EXCEPT ![p] = @ + 1]
        /\ toServer' = [toServer EXCEPT ![p] = Append(@,
             SignalMsg(p, [type |-> "ice", candidate |-> [by |-> p, n |-> gathered[p] + 1]]))]
        /\ UNCHANGED gatherDone
     \/ /\ gathered[p] > 0
        /\ gatherDone' = [gatherDone EXCEPT ![p] = TRUE]
        /\ toServer' = [toServer EXCEPT ![p] = Append(@,
             SignalMsg(p, [type |-> "ice", candidate |-> [by |-> p, n |-> 0]]))]
        /\ UNCHANGED gathered
  /\ UNCHANGED <<pageVars, appVars, toClient, rooms, joined, localDesc, remoteDesc, chain,
                 remoteCands, dcVars, logVars, xferVars, recvVars>>

\* pc.onicecandidate: gathering runs once a local description is set; the event
\* carries a candidate or, at the end of gathering, null.  A peer with a network
\* interface gathers at least its host candidate.
onicecandidate(p) ==
  /\ localDesc[p] # NoDesc
  /\ ~gatherDone[p]
  /\ \/ /\ gathered[p] < MaxCand
        /\ gathered' = [gathered EXCEPT ![p] = @ + 1]
        /\ toServer' = [toServer EXCEPT ![p] = Append(@,
             SignalMsg(p, [type |-> "ice", candidate |-> [by |-> p, n |-> gathered[p] + 1]]))]
        /\ UNCHANGED gatherDone
     \/ /\ gathered[p] > 0
        /\ gatherDone' = [gatherDone EXCEPT ![p] = TRUE]
        /\ UNCHANGED <<gathered, toServer>>
  /\ UNCHANGED <<pageVars, appVars, toClient, rooms, joined, localDesc, remoteDesc, chain,
                 remoteCands, dcVars, logVars, xferVars, recvVars>>

(***************************************************************************)
(* The transport is up once both ends hold the offer/answer pair and a     *)
(* remote candidate has been added at one end.                             *)
(***************************************************************************)
Connected ==
  /\ localDesc["sender"].type = "offer"
  /\ remoteDesc["receiver"] = localDesc["sender"]
  /\ localDesc["receiver"].type = "answer"
  /\ remoteDesc["sender"] = localDesc["receiver"]
  /\ \E p \in Clients : remoteCands[p] # <<>>

(***************************************************************************)
(* Files and frames.  A file's content is the byte range [0, size) of the  *)
(* file; a Blob is a sequence of ranges <<name, lo, hi>> (Blob.slice and   *)
(* new Blob(parts) copy no bytes).                                         *)
(***************************************************************************)
Files ==
  { [name |-> "a.txt", size |-> 0, type |-> "text/plain"],
    [name |-> "b.bin", size |-> CHUNK_SIZE, type |-> ""],
    [name |-> "c.pdf", size |-> 150000, type |-> "application/pdf"],
    [name |-> "files.zip", size |-> MaxChunks * CHUNK_SIZE, type |-> "application/zip"] }

Min(a, b) == IF a < b THEN a ELSE b

\* (mutant) a slice that is not clamped to the file size
sliceUnclamped(f, start, end) == <<f.name, start, end>>

\* file.slice(start, end): end is clamped to the file size
slice(f, start, end) == <<f.name, Min(start, f.size), Min(end, f.size)>>

\* ArrayBuffer.byteLength
byteLength(seg) == seg[3] - seg[2]

StrLen(s) ==
  CASE s = "" -> 0
    [] s = "a.txt" -> 5
    [] s = "b.bin" -> 5
    [] s = "c.pdf" -> 5
    [] s = "files.zip" -> 9
    [] s = "text/plain" -> 10
    [] s = "application/pdf" -> 15
    [] s = "application/zip" -> 15
    [] OTHER -> 1

RECURSIVE Digits(_)
Digits(n) == IF n < 10 THEN 1 ELSE 1 + Digits(n \div 10)

\* JSON.stringify({filename, size, type}): the members in insertion order
JSONstringify(o) == <<"filename", o.filename, "size", o.size, "type", o.type>>

\* length of the text {"filename":"..","size":..,"type":".."}
JSONlength(txt) == 33 + StrLen(txt[2]) + Digits(txt[4]) + StrLen(txt[6])

\* JSON.parse, read through the members the receiver uses
Member(txt, key) == txt[(CHOOSE i \in 1..(Len(txt) \div 2) : txt[2 * i - 1] = key) * 2]
JSONparse(txt) ==
  [set |-> TRUE, filename |-> Member(txt, "filename"), size |-> Member(txt, "size"),
   type |-> Member(txt, "type")]

\* bytes a frame adds to bufferedAmount
FrameBytes(fr) == IF fr.kind = "text" THEN JSONlength(fr.data) ELSE byteLength(fr.data)

RECURSIVE SumBytes(_, _)
SumBytes(frames, from) ==
  IF from > Len(frames) THEN 0
  ELSE FrameBytes(frames[from]) + SumBytes(frames, from + 1)

\* dc.bufferedAmount of the sender's channel
bufferedAmount == SumBytes(dcSent, nTx + 1)

(***************************************************************************)
(* sendFileOverRTC(file, dc, setProgress), a coroutine per invocation:     *)
(* calls[t].pc is "poll" (in the backpressure wait), "read" (awaiting      *)
(* slice.arrayBuffer()), "done" or "threw".                                *)
(***************************************************************************)
\* (mutant) the loop stops before the chunk that reaches the end of the file
LoopPcEarly(offset, size, buffered) ==
  IF offset + CHUNK_SIZE < size
    THEN IF buffered > Ceiling THEN "poll" ELSE "read"
    ELSE "done"

\* the loop head: while (offset < file.size) { while (bufferedAmount > 8 chunks) ...
LoopPc(offset, size, buffered) ==
  IF offset < size
    THEN IF buffered > Ceiling THEN "poll" ELSE "read"
    ELSE "done"

\* (mutant) the metadata frame is left out
sendFileOverRTCNoMetadata(f, readyState) ==
  IF readyState # "open"
    THEN /\ calls' = Append(calls,
              [file |-> f, pc |-> "threw", err |-> "DataChannel is not open",
               offset |-> 0, sprogress |-> <<>>])
         /\ UNCHANGED dcSent
    ELSE /\ dcSent' = dcSent
         /\ calls' = Append(calls,
              [file |-> f, pc |-> LoopPc(0, f.size, bufferedAmount),
               err |-> "", offset |-> 0, sprogress |-> <<>>])

\* (mutant) the readyState check is left out
sendFileOverRTCUnchecked(f, readyState) ==
  LET txt == JSONstringify([filename |-> f.name, size |-> f.size, type |-> f.type])
      fr == [kind |-> "text", data |-> txt, tid |-> Len(calls) + 1]
  IN
    /\ dcSent' = Append(dcSent, fr)
    /\ calls' = Append(calls,
         [file |-> f, pc |-> LoopPc(0, f.size, bufferedAmount + FrameBytes(fr)),
          err |-> "", offset |-> 0, sprogress |-> <<>>])

\* the invocation up to its first await
sendFileOverRTC(f, readyState) ==
  IF readyState # "open"
    THEN /\ calls' = Append(calls,
              [file |-> f, pc |-> "threw", err |-> "DataChannel is not open",
               offset |-> 0, sprogress |-> <<>>])
         /\ UNCHANGED dcSent
    ELSE LET txt == JSONstringify([filename |-> f.name, size |-> f.size, type |-> f.type])
             fr == [kind |-> "text", data |-> txt, tid |-> Len(calls) + 1]
         IN
           /\ dcSent' = Append(dcSent, fr)
           /\ calls' = Append(calls,
                [file |-> f, pc |-> LoopPc(0, f.size, bufferedAmount + FrameBytes(fr)),
                 err |-> "", offset |-> 0, sprogress |-> <<>>])

\* setStatus("sent") follows the await of sendFileOverRTC in the caller
StatusAfter(pc) == IF pc = "done" THEN "sent" ELSE "sending"

\* the 20 ms timer of the backpressure wait fired and the buffer is below the ceiling
Poll(t) ==
  /\ t \in 1..Len(calls)
  /\ calls[t].pc = "poll"
  /\ bufferedAmount <= Ceiling
  /\ calls' = [calls EXCEPT ![t].pc = "read"]
  /\ UNCHANGED <<pageVars, appVars, sigVars, pcVars, dcVars, logVars, dcSent, nTx, nRx, recvVars>>

\* (mutant) a write on a channel that is not open is dropped and the loop goes on
ReadDoneSilent(t) ==
  /\ t \in 1..Len(calls)
  /\ calls[t].pc = "read"
  /\ LET c == calls[t]
         fr == [kind |-> "bin", data |-> slice(c.file, c.offset, c.offset + CHUNK_SIZE),
                tid |-> t]
         offset == c.offset + CHUNK_SIZE
         sent == IF dc["sender"] # "open" THEN dcSent ELSE Append(dcSent, fr)
         pc == LoopPc(offset, c.file.size, SumBytes(sent, nTx + 1))
     IN
       /\ dcSent' = sent
       /\ calls' = [calls EXCEPT ![t].pc = pc, ![t].offset = offset,
                      ![t].sprogress = Append(@,
                         [num |-> offset * 100, den |-> c.file.size, bytes |-> offset])]
       /\ status' = [status EXCEPT !["sender"] = IF pc = "done" THEN "sent" ELSE @]
  /\ UNCHANGED <<pageVars, rtc, code, clicks, sigVars, pcVars, dcVars, logVars, nTx, nRx, recvVars>>

\* slice.arrayBuffer() resolved: dc.send(buffer), offset += CHUNK_SIZE, setProgress
ReadDone(t) ==
  /\ t \in 1..Len(calls)
  /\ calls[t].pc = "read"
  /\ LET c == calls[t]
         fr == [kind |-> "bin", data |-> slice(c.file, c.offset, c.offset + CHUNK_SIZE),
                tid |-> t]
         offset == c.offset + CHUNK_SIZE
         pc == LoopPc(offset, c.file.size, bufferedAmount + FrameBytes(fr))
     IN
       IF dc["sender"] # "open"
         THEN /\ calls' = [calls EXCEPT ![t].pc = "threw", ![t].err = "InvalidStateError"]
              /\ UNCHANGED <<dcSent, status>>
         ELSE /\ dcSent' = Append(dcSent, fr)
              /\ calls' = [calls EXCEPT ![t].pc = pc, ![t].offset = offset,
                             ![t].sprogress = Append(@,
                                [num |-> offset * 100, den |-> c.file.size, bytes |-> offset])]
              /\ status' = [status EXCEPT !["sender"] = IF pc = "done" THEN "sent" ELSE @]
  /\ UNCHANGED <<pageVars, rtc, code, clicks, sigVars, pcVars, dcVars, logVars, nTx, nRx, recvVars>>

(***************************************************************************)
(* Application: the "Send File" button.  While the channel is not open the *)
(* send is parked in dc.onopen.                                            *)
(***************************************************************************)
performFileSend(p, f) ==
  IF dc[p] # "open"
    THEN /\ status' = [status EXCEPT ![p] = "waiting-for-connection"]
         /\ onopen' = [onopen EXCEPT ![p] = [h |-> "app", file |-> f]]
         /\ UNCHANGED <<dcSent, calls>>
    ELSE /\ sendFileOverRTC(f, dc[p])
         /\ status' = [status EXCEPT ![p] = StatusAfter(calls'[Len(calls')].pc)]
         /\ UNCHANGED onopen

sendFile(p) ==
  /\ ~isReceiver(p)
  /\ rtc[p]
  /\ dc[p] # "null"
  /\ status[p] # "sending"
  /\ clicks < MaxSends
  /\ clicks' = clicks + 1
  /\ \E f \in Files : performFileSend(p, f)
  /\ UNCHANGED <<pageVars, rtc, code, sigVars, pcVars, dc, created, acquired, logVars, nTx, nRx,
                 recvVars>>

(***************************************************************************)
(* Data channel events.                                                    *)
(***************************************************************************)
\* setupReceive(dc, onFileReceived, onProgress): fresh closure state
setupReceive ==
  /\ meta' = NoMeta
  /\ receivedBytes' = 0
  /\ chunks' = <<>>

\* pc.ondatachannel: the event is dispatched once for each channel the remote
\* peer created; the handler takes event.channel as the link's channel
ondatachannel(p) ==
  /\ Connected
  /\ acquired[p] < created[Peer(p)]
  /\ acquired' = [acquired EXCEPT ![p] = @ + 1]
  /\ created' = created
  /\ dc' = [dc EXCEPT ![p] = "connecting"]
  /\ onopen' = [onopen EXCEPT ![p] = [h |-> "lib"]]
  /\ setupReceive
  /\ UNCHANGED <<pageVars, appVars, sigVars, pcVars, logVars, xferVars, completions, rprogress>>

\* the channel's open event: runs whichever handler dc.onopen holds
OnOpen(p) ==
  /\ Connected
  /\ dc[p] = "connecting"
  /\ dc' = [dc EXCEPT ![p] = "open"]
  /\ opened' = [opened EXCEPT ![p] = @ + 1]
  /\ IF onopen[p].h = "lib"
       THEN /\ readyCalls' = [readyCalls EXCEPT ![p] = @ + 1]
            /\ status' = [status EXCEPT ![p] = "connected"]
            /\ UNCHANGED <<dcSent, calls>>
       ELSE /\ sendFileOverRTC(onopen[p].file, "open")
            /\ status' = [status EXCEPT ![p] = StatusAfter(calls'[Len(calls')].pc)]
            /\ UNCHANGED readyCalls
  /\ UNCHANGED <<pageVars, rtc, code, clicks, sigVars, pcVars, onopen, created, acquired, pjRecv,
                 offersSent, offersRecv, answersSent, caught, unhandled, nTx, nRx,
                 recvVars>>

\* the transport takes the oldest buffered frame off the sender's buffer
Drain ==
  /\ dc["sender"] = "open"
  /\ nTx < Len(dcSent)
  /\ nTx' = nTx + 1
  /\ UNCHANGED <<pageVars, appVars, sigVars, pcVars, dcVars, logVars, dcSent, nRx, calls, recvVars>>

\* (mutant) progress reports the length of the frame, not the running total
onmessageFrameProgress(fr) ==
  IF fr.kind = "text"
    THEN /\ meta' = JSONparse(fr.data)
         /\ UNCHANGED <<receivedBytes, chunks, completions, rprogress, status>>
    ELSE LET received == receivedBytes + byteLength(fr.data)
             parts == Append(chunks, fr.data)
         IN
           /\ chunks' = parts
           /\ receivedBytes' = received
           /\ meta' = meta
           /\ rprogress' =
                IF meta.set
                  THEN Append(rprogress, [num |-> received * 100, den |-> meta.size,
                                          bytes |-> byteLength(fr.data), total |-> meta.size,
                                          at |-> nRx + 1])
                  ELSE rprogress
           /\ IF meta.set /\ received = meta.size
                THEN /\ completions' = Append(completions,
                          [meta |-> meta, blob |-> parts, type |-> meta.type, at |-> nRx + 1])
                     /\ status' = [status EXCEPT !["receiver"] = "received"]
                ELSE UNCHANGED <<completions, status>>

\* dc.onmessage of setupReceive
onmessage(fr) ==
  IF fr.kind = "text"
    THEN /\ meta' = JSONparse(fr.data)
         /\ UNCHANGED <<receivedBytes, chunks, completions, rprogress, status>>
    ELSE LET received == receivedBytes + byteLength(fr.data)
             parts == Append(chunks, fr.data)
         IN
           /\ chunks' = parts
           /\ receivedBytes' = received
           /\ meta' = meta
           /\ rprogress' =
                IF meta.set
                  THEN Append(rprogress, [num |-> received * 100, den |-> meta.size,
                                          bytes |-> received, total |-> meta.size,
                                          at |-> nRx + 1])
                  ELSE rprogress
           /\ IF meta.set /\ received = meta.size
                THEN /\ completions' = Append(completions,
                          [meta |-> meta, blob |-> parts, type |-> meta.type, at |-> nRx + 1])
                     /\ status' = [status EXCEPT !["receiver"] = "received"]
                ELSE UNCHANGED <<completions, status>>

\* the next frame in order reaches the receiver
Deliver ==
  /\ dc["receiver"] = "open"
  /\ nRx < nTx
  /\ onmessage(dcSent[nRx + 1])
  /\ nRx' = nRx + 1
  /\ UNCHANGED <<pageVars, rtc, code, clicks, sigVars, pcVars, dcVars, logVars, dcSent, nTx, calls>>

\* the established channel closes (the peer went away, the transport failed)
Close ==
  /\ \A p \in Clients : dc[p] = "open"
  /\ dc' = [p \in Clients |-> "closed"]
  /\ UNCHANGED <<pageVars, appVars, sigVars, pcVars, onopen, created, acquired, logVars, xferVars,
                 recvVars>>

(***************************************************************************)
(* Spec: a session from page load to the open channel: relay, negotiation, *)
(* channel events and send requests.  A send request starts                *)
(* sendFileOverRTC; the frames of a transfer are followed in XferSpec,     *)
(* whose steps touch none of the negotiation state.                        *)
(***************************************************************************)
NegNext ==
  \E p \in Clients :
    \/ startSend(p)
    \/ startReceive(p)
    \/ RelayJoin(p)
    \/ RelaySignal(p)
    \/ OnPeerJoined(p)
    \/ OnSignal(p)
    \/ Resolve(p)
    \/ Reject(p)
    \/ onicecandidate(p)
    \/ ondatachannel(p)
    \/ OnOpen(p)

Next ==
  \/ NegNext
  \/ \E p \in Clients : sendFile(p)
  \/ Close

Spec == Init /\ [][Next]_vars

(***************************************************************************)
(* FairSpec: the relay handles every emitted event, the client dispatches  *)
(* every event it was sent, pending pc operations settle, ICE gathering    *)
(* and channel events happen.  Nothing forces a user to start a session    *)
(* or to request a send.                                                   *)
(***************************************************************************)
Fairness ==
  \A p \in Clients :
    /\ WF_vars(RelayJoin(p))
    /\ WF_vars(RelaySignal(p))
    /\ WF_vars(OnPeerJoined(p))
    /\ WF_vars(OnSignal(p))
    /\ WF_vars(Resolve(p))
    /\ WF_vars(onicecandidate(p))
    /\ WF_vars(ondatachannel(p))
    /\ WF_vars(OnOpen(p))

FairSpec == Init /\ [][Next]_vars /\ Fairness

(***************************************************************************)
(* XferSpec: transfers over an established channel.  It starts in the      *)
(* state Spec reaches when both ends have handled the open event and the   *)
(* signaling traffic has drained.                                          *)
(***************************************************************************)
Established ==
  /\ rtc = [p \in Clients |-> TRUE]
  /\ code = [p \in Clients |-> "111111"]
  /\ status = [p \in Clients |-> "connected"]
  /\ clicks = 0
  /\ toServer = [p \in Clients |-> <<>>]
  /\ toClient = [p \in Clients |-> <<>>]
  /\ rooms = [c \in Codes |-> IF c = "111111" THEN Clients ELSE {}]
  /\ joined = <<"sender", "receiver">>
  /\ localDesc = [p \in Clients |->
       [type |-> IF isReceiver(p) THEN "answer" ELSE "offer", by |-> p]]
  /\ remoteDesc = [p \in Clients |->
       [type |-> IF isReceiver(p) THEN "offer" ELSE "answer", by |-> Peer(p)]]
  /\ chain = [p \in Clients |-> <<>>]
  /\ remoteCands = [p \in Clients |-> << [by |-> Peer(p), n |-> 1] >>]
  /\ gathered = [p \in Clients |-> 1]
  /\ gatherDone = [p \in Clients |-> TRUE]
  /\ dc = [p \in Clients |-> "open"]
  /\ onopen = [p \in Clients |-> [h |-> "lib"]]
  /\ created = [p \in Clients |-> IF isReceiver(p) THEN 0 ELSE 1]
  /\ acquired = [p \in Clients |-> IF isReceiver(p) THEN 1 ELSE 0]
  /\ readyCalls = [p \in Clients |-> 1]
  /\ opened = [p \in Clients |-> 1]
  /\ pjRecv = [p \in Clients |-> IF isReceiver(p) THEN 0 ELSE 1]
  /\ offersSent = [p \in Clients |-> IF isReceiver(p) THEN 0 ELSE 1]
  /\ offersRecv = [p \in Clients |-> IF isReceiver(p) THEN 1 ELSE 0]
  /\ answersSent = [p \in Clients |-> IF isReceiver(p) THEN 1 ELSE 0]
  /\ caught = [p \in Clients |-> 0]
  /\ unhandled = [p \in Clients |-> 0]
  /\ dcSent = <<>>
  /\ nTx = 0
  /\ nRx = 0
  /\ calls = <<>>
  /\ meta = NoMeta
  /\ receivedBytes = 0
  /\ chunks = <<>>
  /\ completions = <<>>
  /\ rprogress = <<>>
  /\ ui = NoUi
  /\ sessions = <<>>

XferNext ==
  \/ \E p \in Clients : sendFile(p)
  \/ \E t \in 1..MaxSends : Poll(t)
  \/ \E t \in 1..MaxSends : ReadDone(t)
  \/ Drain
  \/ Deliver
  \/ Close

XferSpec == Established /\ [][XferNext]_vars

(***************************************************************************)
(* XferFairSpec: the 20 ms timer of the backpressure wait fires, a pending  *)
(* slice.arrayBuffer() settles, and an open channel keeps transmitting     *)
(* what it has buffered.                                                   *)
(***************************************************************************)
XferFairness ==
  /\ WF_vars(Drain)
  /\ \A t \in 1..MaxSends : WF_vars(Poll(t)) /\ WF_vars(ReadDone(t))

XferFairSpec == Established /\ [][XferNext]_vars /\ XferFairness

(***************************************************************************)
(* SendSpec: sendFileOverRTC as an exported function, invoked on a channel *)
(* in any readyState (or on no channel).                                   *)
(***************************************************************************)
ReadyStates == {"connecting", "open", "closing", "closed"}

SendInit ==
  \E st \in ReadyStates \cup {"null"} :
    InitBut([p \in Clients |-> IF isReceiver(p) THEN "null" ELSE st])

\* a caller invokes sendFileOverRTC(file, dc, setProgress) and awaits it before
\* the next invocation
Call ==
  /\ Len(calls) < MaxSends
  /\ \A t \in 1..Len(calls) : calls[t].pc \in {"done", "threw"}
  /\ \E f \in Files : sendFileOverRTC(f, dc["sender"])
  /\ UNCHANGED <<pageVars, appVars, sigVars, pcVars, dcVars, logVars, nTx, nRx, recvVars>>

\* the channel's readyState advances
ReadyStateChange ==
  /\ dc["sender"] \in {"connecting", "open", "closing"}
  /\ dc' = [dc EXCEPT !["sender"] =
       CASE @ = "connecting" -> "open" [] @ = "open" -> "closing" [] OTHER -> "closed"]
  /\ UNCHANGED <<pageVars, appVars, sigVars, pcVars, onopen, created, acquired, logVars, xferVars,
                 recvVars>>

SendNext ==
  \/ Call
  \/ \E t \in 1..MaxSends : Poll(t)
  \/ \E t \in 1..MaxSends : ReadDone(t)
  \/ Drain
  \/ ReadyStateChange

SendSpec == SendInit /\ [][SendNext]_vars

(***************************************************************************)
(* RecvSpec: setupReceive attached to an open channel whose remote end is  *)
(* whoever joined the room: it may write any frame in any order.           *)
(***************************************************************************)
TextFrameOf(f) ==
  [kind |-> "text", tid |-> 0,
   data |-> JSONstringify([filename |-> f.name, size |-> f.size, type |-> f.type])]

RemoteFrames ==
  { TextFrameOf(f) : f \in {g \in Files : g.size \in {CHUNK_SIZE, 150000}} }
  \cup { [kind |-> "bin", tid |-> 0, data |-> slice(f, k * CHUNK_SIZE, (k + 1) * CHUNK_SIZE)] :
           f \in {g \in Files : g.size = 150000}, k \in 0..2 }
  \cup { [kind |-> "bin", tid |-> 0, data |-> slice(f, 0, CHUNK_SIZE)] :
           f \in {g \in Files : g.size = CHUNK_SIZE} }

\* the remote peer writes a frame; the transport carries it
RemoteWrite ==
  /\ Len(dcSent) < MaxFrames
  /\ \E fr \in RemoteFrames : dcSent' = Append(dcSent, fr)
  /\ nTx' = nTx + 1
  /\ UNCHANGED <<pageVars, appVars, sigVars, pcVars, dcVars, logVars, nRx, calls, recvVars>>

RecvNext == RemoteWrite \/ Deliver

RecvSpec == Established /\ [][RecvNext]_vars

(***************************************************************************)
(* RelaySpec: the relay alone.  Its clients are whatever connects to the   *)
(* socket.io port: a socket may emit join-room or signal with any code, in *)
(* any order.  toClient keeps what the relay emitted to each socket.       *)
(***************************************************************************)
\* relay events handled or in flight
Emitted(qs) == Len(qs["sender"]) + Len(qs["receiver"])

Emit(p) ==
  /\ Len(joined) + Emitted(toServer) + Emitted(toClient) < MaxEmits
  /\ \E c \in Codes :
       \E m \in { [ev |-> "join-room", code |-> c],
                  [ev |-> "signal", code |-> c,
                   data |-> [type |-> "ice", candidate |-> [by |-> p, n |-> 1]]] } :
         toServer' = [toServer EXCEPT ![p] = Append(@, m)]
  /\ UNCHANGED <<pageVars, appVars, toClient, rooms, joined, pcVars, dcVars, logVars, xferVars,
                 recvVars>>

RelayNext == \E p \in Clients : Emit(p) \/ RelayJoin(p) \/ RelaySignal(p)

RelaySpec == Init /\ [][RelayNext]_vars

(***************************************************************************)
(* AppSpec: the App component of one page over several sessions.  A        *)
(* session is what startSend or startReceive creates: a signaling socket,  *)
(* a connection object with its channel, and a 5-minute timer.  What the   *)
(* remote peer and the network do to a session is the environment: its     *)
(* channel may open while its connection is alive, a completed file may    *)
(* arrive on it.  The callbacks a session is given are closures of the     *)
(* render in which it was started: the timeoutId they read is the value    *)
(* the hook had then.                                                      *)
(***************************************************************************)
\* clearTimeout(id) under if (id): cancels the timer of session id if it is pending
clearTimeout(ss, id) ==
  [s \in 1..Len(ss) |->
     IF s = id /\ ss[s].timer = "pending" THEN [ss[s] EXCEPT !.timer = "cleared"] ELSE ss[s]]

\* the session startSend / startReceive creates; its timer is identified by
\* the session's index
NewSession(role) ==
  [role |-> role,
   timer |-> "pending",
   timeoutId |-> ui.timeoutId,
   pc |-> "live",
   socket |-> "connected",
   dc |-> IF role = "send" THEN "connecting" ELSE "null",
   onopen |-> IF role = "send" THEN "lib" ELSE "none",
   ready |-> 0,
   zipping |-> 0,
   active |-> 0,
   abandoned |-> FALSE]

\* App.startSend, offered while no mode is chosen
startSendSession ==
  /\ ui.mode = "none"
  /\ Len(sessions) < MaxSessions
  /\ sessions' = Append(sessions, NewSession("send"))
  /\ ui' = [ui EXCEPT !.mode = "send", !.status = "waiting-for-receiver", !.error = "",
                      !.timeoutId = Len(sessions) + 1]
  /\ UNCHANGED <<appVars, sigVars, pcVars, dcVars, logVars, xferVars, recvVars>>

\* the "Receive" choice of the start screen: setMode("receive")
setModeReceive ==
  /\ ui.mode = "none"
  /\ ui' = [ui EXCEPT !.mode = "receive"]
  /\ UNCHANGED <<sessions, appVars, sigVars, pcVars, dcVars, logVars, xferVars, recvVars>>

\* App.startReceive, offered in receive mode unless status is "connecting"
startReceiveSession ==
  /\ ui.mode = "receive"
  /\ ui.status # "connecting"
  /\ Len(sessions) < MaxSessions
  /\ sessions' = Append(sessions, NewSession("receive"))
  /\ ui' = [ui EXCEPT !.status = "connecting", !.error = "", !.timeoutId = Len(sessions) + 1]
  /\ UNCHANGED <<appVars, sigVars, pcVars, dcVars, logVars, xferVars, recvVars>>

\* App.handleReset ("Back"): clears the timer the hook holds and the screen
\* state; it touches neither the connection nor the socket
handleReset ==
  /\ ui.mode # "none"
  /\ sessions' = [s \in 1..Len(sessions) |->
       [clearTimeout(sessions, ui.timeoutId)[s] EXCEPT !.abandoned = TRUE]]
  /\ ui' = [ui EXCEPT !.mode = "none", !.status = "idle", !.error = "", !.files = 0,
                      !.isReadyToSend = FALSE]
  /\ UNCHANGED <<appVars, sigVars, pcVars, dcVars, logVars, xferVars, recvVars>>

\* handleFileSelect / deleteFile: files.length > 0 or not
handleFileSelect ==
  /\ ui.mode = "send"
  /\ ui.files = 0
  /\ ui' = [ui EXCEPT !.files = 1, !.error = ""]
  /\ UNCHANGED <<sessions, appVars, sigVars, pcVars, dcVars, logVars, xferVars, recvVars>>

deleteFile ==
  /\ ui.mode = "send"
  /\ ui.files = 1
  /\ ui' = [ui EXCEPT !.files = 0]
  /\ UNCHANGED <<sessions, appVars, sigVars, pcVars, dcVars, logVars, xferVars, recvVars>>

\* the open event of session s's channel (for a receive session, after
\* ondatachannel handed it over): the library handler runs onChannelOpen, the
\* handler performFileSend installed starts the send
onopenSession(s) ==
  /\ s \in 1..Len(sessions)
  /\ sessions[s].pc = "live"
  /\ sessions[s].dc = (IF sessions[s].role = "send" THEN "connecting" ELSE "null")
  /\ IF sessions[s].onopen = "app"
       THEN /\ sessions' = [sessions EXCEPT ![s].dc = "open", ![s].active = @ + 1]
            /\ ui' = [ui EXCEPT !.status = "sending"]
       ELSE /\ sessions' = [clearTimeout(sessions, sessions[s].timeoutId)
                              EXCEPT ![s].dc = "open", ![s].ready = @ + 1]
            /\ ui' = [ui EXCEPT !.status = "connected",
                                !.isReadyToSend = IF sessions[s].role = "send" THEN TRUE ELSE @]
  /\ UNCHANGED <<appVars, sigVars, pcVars, dcVars, logVars, xferVars, recvVars>>

\* the 5-minute timer of session s fires
timeoutFires(s) ==
  /\ s \in 1..Len(sessions)
  /\ sessions[s].timer = "pending"
  /\ sessions' = [sessions EXCEPT ![s].timer = "fired", ![s].pc = "closed",
                                  ![s].socket = "disconnected",
                                  ![s].dc = IF @ = "null" THEN @ ELSE "closed"]
  /\ ui' = [ui EXCEPT !.error = "Connection timeout", !.status = "timeout"]
  /\ UNCHANGED <<appVars, sigVars, pcVars, dcVars, logVars, xferVars, recvVars>>

\* the auto-send effect: runs when isReadyToSend, files, rtc or mode changed;
\* rtc is the connection object of the session started last
autoSend ==
  /\ ui.isReadyToSend
  /\ ui.files > 0
  /\ sessions # <<>>
  /\ ui.mode = "send"
  /\ sessions' = [sessions EXCEPT ![Len(sessions)].zipping = @ + 1]
  /\ ui' = [ui EXCEPT !.isReadyToSend = FALSE]
  /\ UNCHANGED <<appVars, sigVars, pcVars, dcVars, logVars, xferVars, recvVars>>

\* createZipFile resolved: performFileSend(zipFile, rtc) on the connection
\* object r the effect had captured
performFileSendSession(r) ==
  /\ r \in 1..Len(sessions)
  /\ sessions[r].zipping > 0
  /\ CASE sessions[r].dc = "null" ->
            /\ sessions' = [sessions EXCEPT ![r].zipping = @ - 1]
            /\ ui' = ui
       [] sessions[r].dc = "open" ->
            /\ sessions' = [sessions EXCEPT ![r].zipping = @ - 1, ![r].active = @ + 1]
            /\ ui' = [ui EXCEPT !.status = "sending"]
       [] OTHER ->
            /\ sessions' = [sessions EXCEPT ![r].zipping = @ - 1, ![r].onopen = "app"]
            /\ ui' = [ui EXCEPT !.status = "waiting-for-connection"]
  /\ UNCHANGED <<appVars, sigVars, pcVars, dcVars, logVars, xferVars, recvVars>>

\* an invocation of sendFileOverRTC on session s's channel ends: it returns,
\* and the caller shows sent, or a write on the closed channel throws
sendFileOverRTCEnds(s) ==
  /\ s \in 1..Len(sessions)
  /\ sessions[s].active > 0
  /\ sessions' = [sessions EXCEPT ![s].active = @ - 1]
  /\ ui' = [ui EXCEPT !.status = IF sessions[s].dc = "open" THEN "sent" ELSE @]
  /\ UNCHANGED <<appVars, sigVars, pcVars, dcVars, logVars, xferVars, recvVars>>

\* onFileReceived of a receive session: a completed file arrived on its channel
onFileReceived(s) ==
  /\ s \in 1..Len(sessions)
  /\ sessions[s].role = "receive"
  /\ sessions[s].dc = "open"
  /\ sessions' = clearTimeout(sessions, sessions[s].timeoutId)
  /\ ui' = [ui EXCEPT !.status = "received"]
  /\ UNCHANGED <<appVars, sigVars, pcVars, dcVars, logVars, xferVars, recvVars>>

AppNext ==
  \/ startSendSession
  \/ setModeReceive
  \/ startReceiveSession
  \/ handleReset
  \/ handleFileSelect
  \/ deleteFile
  \/ autoSend
  \/ \E s \in 1..MaxSessions :
       \/ onopenSession(s)
       \/ timeoutFires(s)
       \/ performFileSendSession(s)
       \/ sendFileOverRTCEnds(s)
       \/ onFileReceived(s)

AppSpec == Init /\ [][AppNext]_vars

(***************************************************************************)
(* C1 negotiation liveness                                                 *)
(***************************************************************************)
SameRoom == (\A p \in Clients : rtc[p]) /\ code["sender"] = code["receiver"]
Threw == \E p \in Clients : caught[p] + unhandled[p] > 0
BothOpened == \A p \in Clients : opened[p] > 0
InitiatorFirst == joined # <<>> /\ joined[1] = "sender"

\* C1 as stated: once an initiator and a responder have called
\* createWebRTCConnection with the same room code, in either join order, and no
\* description or candidate step throws, the data channel eventually opens on
\* both peers.
C1_EitherOrderOpens == SameRoom ~> (BothOpened \/ Threw)

\* C1 amended: the same, when the relay handles the initiator's join-room before
\* the responder's; a responder that joined first is never sent an offer.
C1_InitiatorFirstOpens == (SameRoom /\ InitiatorFirst) ~> (BothOpened \/ Threw)

C1_Witness == SameRoom /\ InitiatorFirst /\ BothOpened /\ ~Threw

(***************************************************************************)
(* C2 ready callback exactly once                                          *)
(***************************************************************************)
\* C2: onChannelOpen has been invoked once for every channel whose open event
\* was dispatched and not at all for a channel that has not opened: never
\* before the open, never twice, never skipped.
C2_ReadyExactlyOnce ==
  \A p \in Clients : opened[p] <= 1 /\ readyCalls[p] = opened[p]

(***************************************************************************)
(* C3 offer deferral                                                       *)
(***************************************************************************)
\* peer-joined handlers of p suspended at createOffer or setLocalDescription
RECURSIVE PendingOffers(_)
PendingOffers(ops) ==
  IF ops = <<>> THEN 0
  ELSE (IF Head(ops).h = "peer-joined" THEN 1 ELSE 0) + PendingOffers(Tail(ops))

IsOffer(m) == m.ev = "signal" /\ m.data.type = "offer"

\* C3: an initiator has created exactly as many offers as it has handled
\* peer-joined events (none at session start): each is emitted, still being
\* prepared, or its handler failed; an emitted offer is the local description;
\* a responder creates and sends none.
C3_OfferDeferral ==
  \A p \in Clients :
    /\ offersSent[p] + PendingOffers(chain[p]) + unhandled[p]
         = (IF isReceiver(p) THEN 0 ELSE pjRecv[p])
    /\ \A i \in 1..Len(toServer[p]) :
         IsOffer(toServer[p][i]) =>
           /\ ~isReceiver(p)
           /\ offersSent[p] > 0
           /\ toServer[p][i].data.offer = localDesc[p]

C3_Witness ==
  /\ pjRecv["sender"] = 1
  /\ offersSent["sender"] = 1
  /\ \E i \in 1..Len(toServer["sender"]) : IsOffer(toServer["sender"][i])

(***************************************************************************)
(* Frames of one sendFileOverRTC invocation, and Blob contents.            *)
(***************************************************************************)
FramesOf(t) == SelectSeq(dcSent, LAMBDA fr : fr.tid = t)
BinFramesOf(t) == SelectSeq(dcSent, LAMBDA fr : fr.tid = t /\ fr.kind = "bin")
IndexesOf(t) == {i \in 1..Len(dcSent) : dcSent[i].tid = t}
LastIndexOf(t) == CHOOSE i \in IndexesOf(t) : \A j \in IndexesOf(t) : j <= i
MetaOf(f) == [set |-> TRUE, filename |-> f.name, size |-> f.size, type |-> f.type]

\* the bytes of a Blob: adjacent ranges of one file joined, empty ranges dropped
RECURSIVE Bytes(_)
Bytes(b) ==
  IF b = <<>> THEN <<>>
  ELSE LET h == Head(b)
           r == Bytes(Tail(b))
       IN IF h[2] = h[3] THEN r
          ELSE IF r # <<>> /\ r[1][1] = h[1] /\ r[1][2] = h[3]
                 THEN << <<h[1], h[2], r[1][3]>> >> \o Tail(r)
                 ELSE <<h>> \o r

RECURSIVE BlobSize(_)
BlobSize(b) == IF b = <<>> THEN 0 ELSE byteLength(Head(b)) + BlobSize(Tail(b))

FileBytes(f) == IF f.size = 0 THEN <<>> ELSE << <<f.name, 0, f.size>> >>

Started(t) == calls[t].err # "DataChannel is not open"

(***************************************************************************)
(* C4 sender metadata-first                                                *)
(***************************************************************************)
\* C4: every sendFileOverRTC invocation that passed the open check has written
\* one text frame carrying {filename, size, type} of its file as its first
\* frame, and every later frame of the invocation is binary.
C4_SenderMetadataFirst ==
  \A t \in 1..Len(calls) :
    Started(t) =>
      LET fs == FramesOf(t) IN
        /\ Len(fs) >= 1
        /\ fs[1].kind = "text"
        /\ JSONparse(fs[1].data) = MetaOf(calls[t].file)
        /\ \A i \in 2..Len(fs) : fs[i].kind = "bin"

C4_Witness ==
  \E t \in 1..Len(calls) : calls[t].pc = "done" /\ Len(FramesOf(t)) >= 3

(***************************************************************************)
(* C5 receiver metadata-first                                              *)
(***************************************************************************)
\* binary frames among the first n frames that follow the first text frame
RECURSIVE AfterMeta(_, _, _)
AfterMeta(frames, n, seen) ==
  IF n = 0 \/ frames = <<>> THEN <<>>
  ELSE LET fr == Head(frames) IN
         (IF fr.kind = "bin" /\ seen THEN <<fr.data>> ELSE <<>>)
           \o AfterMeta(Tail(frames), n - 1, seen \/ fr.kind = "text")

\* C5: a binary frame that arrived before any metadata frame is counted neither
\* in receivedBytes nor in the fragments of the transfer.
C5_StrayNotCounted ==
  /\ chunks = AfterMeta(dcSent, nRx, FALSE)
  /\ receivedBytes = BlobSize(AfterMeta(dcSent, nRx, FALSE))

(***************************************************************************)
(* C6 completion exactly once                                              *)
(***************************************************************************)
CompletionsOf(t) == SelectSeq(completions, LAMBDA c : c.at \in IndexesOf(t))

\* C6: for a transfer of size S > 0, onFileReceived is invoked only by the last
\* binary frame of the transfer and with its metadata, exactly once when all its
\* frames were delivered; 100% progress is reported only with that frame.
C6_CompletionExactlyOnce ==
  \A t \in 1..Len(calls) :
    (Started(t) /\ calls[t].file.size > 0) =>
      /\ \A k \in 1..Len(completions) :
           completions[k].at \in IndexesOf(t) =>
             /\ calls[t].pc = "done"
             /\ completions[k].at = LastIndexOf(t)
             /\ completions[k].meta = MetaOf(calls[t].file)
      /\ \A k \in 1..Len(rprogress) :
           (rprogress[k].at \in IndexesOf(t) /\ rprogress[k].num = 100 * rprogress[k].den) =>
             (calls[t].pc = "done" /\ rprogress[k].at = LastIndexOf(t))
      /\ (calls[t].pc = "done" /\ nRx >= LastIndexOf(t)) => Len(CompletionsOf(t)) = 1

(***************************************************************************)
(* C7 round-trip fidelity                                                  *)
(***************************************************************************)
\* C7: the content passed to the completion callback has the size of the file
\* of the transfer that completed and is byte for byte that file.
C7_RoundTrip ==
  \A k \in 1..Len(completions) :
    LET f == calls[dcSent[completions[k].at].tid].file IN
      /\ BlobSize(completions[k].blob) = f.size
      /\ Bytes(completions[k].blob) = FileBytes(f)

(***************************************************************************)
(* C8 chunk partition                                                      *)
(***************************************************************************)
CeilDiv(a, b) == (a + b - 1) \div b

\* C8: a completed sendFileOverRTC of a file of size S has written ceil(S / C)
\* binary frames, at offsets 0, C, 2C, ...; every frame but the last has length
\* C and the last has length S - C * floor(S / C) if that is nonzero, else C.
C8_ChunkPartition ==
  \A t \in 1..Len(calls) :
    calls[t].pc = "done" =>
      LET S == calls[t].file.size
          C == 65536
          bs == BinFramesOf(t)
          n == Len(bs)
      IN
        /\ n = CeilDiv(S, C)
        /\ \A i \in 1..n :
             /\ bs[i].data[1] = calls[t].file.name
             /\ bs[i].data[2] = (i - 1) * C
             /\ i < n => byteLength(bs[i].data) = C
             /\ i = n => byteLength(bs[i].data) =
                           (IF S - C * (S \div C) # 0 THEN S - C * (S \div C) ELSE C)

C8_Witness ==
  \E t \in 1..Len(calls) :
    /\ calls[t].pc = "done"
    /\ calls[t].file.size = 150000
    /\ Len(BinFramesOf(t)) = 3
    /\ byteLength(BinFramesOf(t)[3].data) = 18928

(***************************************************************************)
(* C9 backpressure bound                                                   *)
(***************************************************************************)
\* C9: whenever a frame is written on the channel, the channel's bufferedAmount
\* at that moment is at most 8 * 65536 = 524288 bytes.
C9_BackpressureBound ==
  [][dcSent' # dcSent => bufferedAmount <= 8 * 65536]_vars

(***************************************************************************)
(* C10 channel-not-ready error                                             *)
(***************************************************************************)
\* C10: an invocation of sendFileOverRTC on a missing or not open channel fails
\* with "DataChannel is not open", writes no frame and reports no progress, then
\* or later, and leaves the channel as it was.
C10_NotReadyError ==
  [][ /\ (Len(calls') = Len(calls) + 1 /\ dc["sender"] # "open") =>
           /\ calls'[Len(calls')].pc = "threw"
           /\ calls'[Len(calls')].err = "DataChannel is not open"
           /\ dcSent' = dcSent /\ nTx' = nTx /\ dc' = dc
      /\ \A t \in 1..Len(calls') :
           calls'[t].err = "DataChannel is not open" =>
             /\ calls'[t].pc = "threw"
             /\ calls'[t].sprogress = <<>>
             /\ \A i \in 1..Len(dcSent') : dcSent'[i].tid # t
    ]_vars

C10_Witness ==
  \E t \in 1..Len(calls) :
    /\ calls[t].err = "DataChannel is not open"
    /\ dc["sender"] \in {"null", "connecting", "closing", "closed"}


(***************************************************************************)
(* C11 zero-byte completion                                                *)
(***************************************************************************)
FirstIndexOf(t) == CHOOSE i \in IndexesOf(t) : \A j \in IndexesOf(t) : i <= j

\* C11: for a transfer of a file of size 0 the sender writes the metadata frame
\* only and is done, and as soon as that frame has been delivered the receiver
\* has invoked onFileReceived for it, with the metadata and empty content.
C11_ZeroByteCompletion ==
  \A t \in 1..Len(calls) :
    (Started(t) /\ calls[t].file.size = 0) =>
      /\ calls[t].pc = "done"
      /\ Len(FramesOf(t)) = 1
      /\ FramesOf(t)[1].kind = "text"
      /\ nRx >= FirstIndexOf(t) =>
           \E k \in 1..Len(completions) :
             /\ completions[k].at = FirstIndexOf(t)
             /\ completions[k].meta = MetaOf(calls[t].file)
             /\ BlobSize(completions[k].blob) = 0

(***************************************************************************)
(* C12 sender progress value                                               *)
(***************************************************************************)
\* file bytes in the first k binary frames of invocation t
WrittenBy(t, k) == BlobSize([i \in 1..k |-> BinFramesOf(t)[i].data])

\* C12: sendFileOverRTC reports progress once per binary frame; the k-th report
\* carries as bytes the file bytes written in the first k frames and as percent
\* that number * 100 / file size, so bytes never exceed the file size and the
\* percent never exceeds 100.
C12_SenderProgressValue ==
  \A t \in 1..Len(calls) :
    LET c == calls[t] IN
      /\ Len(c.sprogress) = Len(BinFramesOf(t))
      /\ \A k \in 1..Len(c.sprogress) :
           /\ c.sprogress[k].bytes = WrittenBy(t, k)
           /\ c.sprogress[k].den = c.file.size
           /\ c.sprogress[k].num = WrittenBy(t, k) * 100
           /\ c.sprogress[k].bytes <= c.file.size
           /\ c.sprogress[k].num <= 100 * c.sprogress[k].den

(***************************************************************************)
(* C13 progress monotonicity                                               *)
(***************************************************************************)
\* onProgress reports caused by the frames of invocation t, in order
ProgressOf(t) == SelectSeq(rprogress, LAMBDA r : r.at \in IndexesOf(t))

NonDecreasing(reports) ==
  \A i \in 1..Len(reports) : \A j \in i..Len(reports) : reports[i].bytes <= reports[j].bytes

\* C13: within one transfer the byte count of successive progress reports never
\* decreases, on the sender (setProgress) and on the receiver (onProgress).
C13_ProgressMonotone ==
  \A t \in 1..Len(calls) :
    /\ NonDecreasing(calls[t].sprogress)
    /\ NonDecreasing(ProgressOf(t))

C13_Witness ==
  \E t \in 1..Len(calls) :
    /\ Len(calls[t].sprogress) = 3
    /\ Len(ProgressOf(t)) = 3
    /\ ProgressOf(t)[3].bytes > ProgressOf(t)[1].bytes


(***************************************************************************)
(* C14 write after close                                                   *)
(***************************************************************************)
\* invocation t is inside its loop
InTransfer(t) == calls[t].pc \in {"poll", "read"}

\* C14: once the channel has left the open state while an invocation of
\* sendFileOverRTC is inside its loop, the invocation writes no further frame,
\* reports no further progress and never completes; when it attempts its next
\* write it ends with an error.
C14_WriteAfterClose ==
  [][\A t \in 1..Len(calls) :
       (InTransfer(t) /\ dc["sender"] # "open") =>
         /\ dcSent' = dcSent
         /\ calls'[t].sprogress = calls[t].sprogress
         /\ calls'[t].pc # "done"
         /\ status'["sender"] # "sent"
         /\ (calls[t].pc = "read" /\ calls'[t] # calls[t]) =>
              (calls'[t].pc = "threw" /\ calls'[t].err # "")
    ]_vars

C14_Witness ==
  \E t \in 1..Len(calls) :
    /\ calls[t].pc = "threw"
    /\ calls[t].err = "InvalidStateError"
    /\ Len(BinFramesOf(t)) >= 1
    /\ dc["sender"] = "closed"


(***************************************************************************)
(* C15 negotiation errors are contained                                    *)
(***************************************************************************)
\* C15: no failure of a negotiation step (setting a description, creating or
\* storing an offer or an answer, adding a candidate) escapes its handler:
\* every one is caught and logged.
C15_ErrorsContained == \A p \in Clients : unhandled[p] = 0


(***************************************************************************)
(* C16 relay room scoping                                                  *)
(***************************************************************************)
\* C16: every signal the relay delivered to a socket q carries the data its
\* emitter sent, the emitter is another socket, and both q and the emitter are
\* members of the room the signal named.
C16_RoomScoping ==
  \A q \in Clients : \A i \in 1..Len(toClient[q]) :
    LET m == toClient[q][i] IN
      m.ev = "signal" =>
        /\ m.from # q
        /\ m.data.candidate.by = m.from
        /\ q \in rooms[m.room]
        /\ m.from \in rooms[m.room]


(***************************************************************************)
(* C17 single channel per connection object                                *)
(***************************************************************************)
\* C17: the initiator has created exactly one channel from construction on
\* and was handed none; the responder has created none and was handed at most
\* one by ondatachannel; getDataChannel is null exactly while the link has no
\* channel, so the one channel is never replaced.
C17_SingleChannel ==
  \A p \in Clients :
    /\ created[p] = (IF rtc[p] /\ ~isReceiver(p) THEN 1 ELSE 0)
    /\ acquired[p] <= (IF isReceiver(p) THEN 1 ELSE 0)
    /\ (dc[p] = "null") = (created[p] + acquired[p] = 0)

C17_Witness ==
  /\ created["sender"] = 1
  /\ acquired["receiver"] = 1
  /\ \A p \in Clients : dc[p] = "open"


(***************************************************************************)
(* C18 send termination                                                    *)
(***************************************************************************)
\* the content of the binary frames invocation t has written
SentBytes(t) == Bytes([i \in 1..Len(BinFramesOf(t)) |-> BinFramesOf(t)[i].data])

\* an invocation is complete only with offset >= size, its metadata frame and
\* binary frames covering the whole file written; inside the loop offset < size
CompleteOnlyWhenWritten ==
  \A t \in 1..Len(calls) :
    /\ InTransfer(t) => calls[t].offset < calls[t].file.size
    /\ calls[t].pc = "done" =>
         /\ calls[t].offset >= calls[t].file.size
         /\ Len(FramesOf(t)) = 1 + Len(BinFramesOf(t))
         /\ FramesOf(t)[1].kind = "text"
         /\ SentBytes(t) = FileBytes(calls[t].file)

StartedAt(t) == IF t <= Len(calls) THEN Started(t) ELSE FALSE
DoneAt(t) == IF t <= Len(calls) THEN calls[t].pc = "done" ELSE FALSE

\* C18: while the channel stays open and drains, every invocation of
\* sendFileOverRTC that passed the open check eventually completes, for every
\* file size, and it is complete only once the metadata frame and the binary
\* frames covering the file have been written.
C18_SendTerminates ==
  /\ []CompleteOnlyWhenWritten
  /\ \A t \in 1..MaxSends :
       StartedAt(t) ~> (DoneAt(t) \/ dc["sender"] # "open")

C18_Witness ==
  \E t \in 1..Len(calls) :
    /\ calls[t].pc = "done"
    /\ calls[t].file.size = MaxChunks * CHUNK_SIZE
    /\ dc["sender"] = "open"


(***************************************************************************)
(* C19 offer handling order                                                *)
(***************************************************************************)
IsAnswer(m) == m.ev = "signal" /\ m.data.type = "answer"

\* pending operations of p's signal handlers that are named op and belong to
\* the branch h
RECURSIVE Pending(_, _, _)
Pending(ops, h, op) ==
  IF ops = <<>> THEN 0
  ELSE (IF Head(ops).h = h /\ Head(ops).op \in op THEN 1 ELSE 0) + Pending(Tail(ops), h, op)

OfferSteps == {"setRemoteDescription", "createAnswer", "setLocalDescription"}

\* one answer for each offer whose handler has run through, none without an
\* offer; an emitted answer carries the room code and is the stored description
AnswerPerOffer ==
  \A p \in Clients :
    /\ answersSent[p] + Pending(chain[p], "offer", OfferSteps) <= offersRecv[p]
    /\ caught[p] = 0 =>
         answersSent[p] + Pending(chain[p], "offer", OfferSteps) = offersRecv[p]
    /\ \A i \in 1..Len(toServer[p]) :
         IsAnswer(toServer[p][i]) =>
           /\ answersSent[p] > 0
           /\ toServer[p][i].code = code[p]
           /\ toServer[p][i].data.answer = localDesc[p]
           /\ remoteDesc[p].type = "offer"

\* the steps of the offer branch in order, the emit last; a failed step ends
\* the handler without an answer
OfferStepOrder ==
  \A p \in Clients :
    /\ Pending(chain'[p], "offer", {"createAnswer"}) > Pending(chain[p], "offer", {"createAnswer"})
         => /\ Head(chain[p]) = Op("setRemoteDescription", "offer", remoteDesc'[p])
            /\ remoteDesc'[p].type = "offer"
    /\ Pending(chain'[p], "offer", {"setLocalDescription"})
         > Pending(chain[p], "offer", {"setLocalDescription"})
         => /\ Head(chain[p]).h = "offer" /\ Head(chain[p]).op = "createAnswer"
            /\ remoteDesc[p].type = "offer"
    /\ (answersSent'[p] # answersSent[p]
          \/ (Len(toServer'[p]) > Len(toServer[p])
              /\ IsAnswer(toServer'[p][Len(toServer'[p])])))
         => /\ answersSent'[p] = answersSent[p] + 1
            /\ chain[p] # <<>>
            /\ Head(chain[p]).h = "offer" /\ Head(chain[p]).op = "setLocalDescription"
            /\ localDesc'[p] = Head(chain[p]).arg
            /\ localDesc'[p] = [type |-> "answer", by |-> p]
            /\ toServer'[p] = Append(toServer[p],
                 [ev |-> "signal", code |-> code[p],
                  data |-> [type |-> "answer", answer |-> localDesc'[p]]])
    /\ caught'[p] # caught[p] =>
         /\ toServer'[p] = toServer[p]
         /\ answersSent'[p] = answersSent[p]
         /\ Pending(chain'[p], "offer", OfferSteps)
              = Pending(chain[p], "offer", OfferSteps)
                  - (IF Head(chain[p]).h = "offer" THEN 1 ELSE 0)

\* C19: for each received offer the peer sets it as remote description, creates
\* an answer, stores the answer as local description and only then emits one
\* answer signal with its room code; a failed step emits none; no answer is
\* emitted without an offer received.
C19_OfferHandlingOrder == []AnswerPerOffer /\ [][OfferStepOrder]_vars

C19_Witness ==
  /\ answersSent["receiver"] = 1
  /\ \E i \in 1..Len(toServer["receiver"]) : IsAnswer(toServer["receiver"][i])


(***************************************************************************)
(* C20 remote candidates in receipt order                                  *)
(***************************************************************************)
\* candidates handed to pc.addIceCandidate and not yet settled, oldest first
RECURSIVE PendingCands(_)
PendingCands(ops) ==
  IF ops = <<>> THEN <<>>
  ELSE (IF Head(ops).op = "addIceCandidate" THEN <<Head(ops).arg>> ELSE <<>>)
         \o PendingCands(Tail(ops))

IsIce(m) == m.ev = "signal" /\ m.data.type = "ice"

\* C20: a candidate signal, when received, is handed to the connection behind
\* the candidates received before it, whatever other handlers are suspended; a
\* candidate is added only as the oldest one pending; a candidate that fails
\* leaves the later ones pending, to be added in their turn.
C20_CandidatesInOrder ==
  [][\A p \in Clients :
       LET pending == PendingCands(chain[p]) IN
         /\ (toClient[p] # <<>> /\ toClient'[p] = Tail(toClient[p]) /\ IsIce(Head(toClient[p])))
              => /\ PendingCands(chain'[p]) = Append(pending, Head(toClient[p]).data.candidate)
                 /\ remoteCands'[p] = remoteCands[p]
         /\ remoteCands'[p] # remoteCands[p]
              => /\ pending # <<>>
                 /\ remoteCands'[p] = Append(remoteCands[p], Head(pending))
                 /\ PendingCands(chain'[p]) = Tail(pending)
         /\ (caught'[p] # caught[p] /\ Head(chain[p]).op = "addIceCandidate")
              => /\ pending # <<>>
                 /\ PendingCands(chain'[p]) = Tail(pending)
                 /\ remoteCands'[p] = remoteCands[p]
         /\ PendingCands(chain'[p]) # pending
              => \/ pending # <<>> /\ PendingCands(chain'[p]) = Tail(pending)
                 \/ /\ toClient[p] # <<>>
                    /\ IsIce(Head(toClient[p]))
                    /\ PendingCands(chain'[p]) = Append(pending, Head(toClient[p]).data.candidate)
    ]_vars

\* both candidates of the peer were added, in order, while the handler of the
\* offer is still suspended
C20_Witness ==
  \E p \in Clients :
    /\ Len(remoteCands[p]) = 2
    /\ remoteCands[p][1].n = 1
    /\ remoteCands[p][2].n = 2
    /\ Pending(chain[p], "offer", OfferSteps) = 1


(***************************************************************************)
(* C21 local candidate relay                                               *)
(***************************************************************************)
\* the ice signal p emits for its n-th local candidate
IceSignal(p, n) ==
  [ev |-> "signal", code |-> code[p],
   data |-> [type |-> "ice", candidate |-> [by |-> p, n |-> n]]]

\* C21: the discovery of p's n-th local candidate emits exactly one ice signal
\* carrying that candidate and p's room code, behind the signals p emitted
\* before; the end-of-candidates event emits nothing; no ice signal is emitted
\* otherwise.
C21_LocalCandidateRelay ==
  [][\A p \in Clients :
       /\ gathered'[p] # gathered[p] =>
            /\ gathered'[p] = gathered[p] + 1
            /\ toServer'[p] = Append(toServer[p], IceSignal(p, gathered'[p]))
       /\ gatherDone'[p] # gatherDone[p] => toServer'[p] = toServer[p]
       /\ (Len(toServer'[p]) > Len(toServer[p]) /\ IsIce(toServer'[p][Len(toServer'[p])]))
            => gathered'[p] = gathered[p] + 1
    ]_vars

C21_Witness ==
  \E p \in Clients :
    /\ gatherDone[p]
    /\ gathered[p] = 2
    /\ \E i \in 1..Len(toServer[p]) : toServer[p][i] = IceSignal(p, 2)

(***************************************************************************)
(* C22 relay peer-joined fan-out                                           *)
(***************************************************************************)
\* C22: when the relay handles join-room c of socket p, it emits peer-joined
\* to every socket that was a member of room c before, p excepted, and to no
\* other socket; a join of an empty room emits nothing.
C22_PeerJoinedFanOut ==
  [][joined' # joined =>
       LET p == joined'[Len(joined')]
           c == Head(toServer[p]).code
       IN \A q \in Clients :
            toClient'[q] = IF q \in rooms[c] /\ q # p
                             THEN Append(toClient[q], [ev |-> "peer-joined"])
                             ELSE toClient[q]
    ]_vars

\* the first member of a room was told of the second; the second was told nothing
C22_Witness ==
  /\ Len(joined) = 2
  /\ joined[1] # joined[2]
  /\ rooms["111111"] = Clients
  /\ toClient[joined[1]] = << [ev |-> "peer-joined"] >>
  /\ toClient[joined[2]] = <<>>

(***************************************************************************)
(* C23 receiver reset on channel reuse                                     *)
(***************************************************************************)
\* binary frames of invocation t among the frames delivered so far
DeliveredOf(t) ==
  LET is == {i \in IndexesOf(t) : i <= nRx /\ dcSent[i].kind = "bin"}
      RECURSIVE Take(_)
      Take(n) == IF n > nRx THEN <<>>
                 ELSE (IF n \in is THEN <<dcSent[n].data>> ELSE <<>>) \o Take(n + 1)
  IN Take(1)

\* C23: once the metadata frame of a transfer has been delivered, bytesReceived
\* and the fragments are those of this transfer alone (0 and none at its start),
\* also when an earlier transfer went over the same channel; its completion
\* fires with its last frame and carries the bytes of its file.
C23_ReceiverReset ==
  \A t \in 1..Len(calls) :
    (Started(t) /\ nRx >= FirstIndexOf(t) /\ (t = Len(calls) \/ nRx < FirstIndexOf(t + 1))) =>
      /\ receivedBytes = BlobSize(DeliveredOf(t))
      /\ chunks = DeliveredOf(t)
      /\ (calls[t].pc = "done" /\ calls[t].file.size > 0 /\ nRx >= LastIndexOf(t)) =>
           \E k \in 1..Len(completions) :
             /\ completions[k].at = LastIndexOf(t)
             /\ Bytes(completions[k].blob) = FileBytes(calls[t].file)

(***************************************************************************)
(* C27 send-time errors are exposed                                        *)
(***************************************************************************)
\* C27: when an invocation of sendFileOverRTC started by the application has
\* failed, the application has left the sending state and does not show sent.
C27_SendErrorsExposed ==
  (calls # <<>> /\ calls[Len(calls)].pc = "threw") =>
    status["sender"] \notin {"sending", "sent"}


(***************************************************************************)
(* C24 exclusive channel use                                               *)
(***************************************************************************)
\* C24: at most one invocation of sendFileOverRTC is in progress on the
\* channel of a session at any time.
C24_ExclusiveChannelUse ==
  \A s \in 1..Len(sessions) : sessions[s].active <= 1

(***************************************************************************)
(* C25 timeout cancelled on connect                                        *)
(***************************************************************************)
\* C25: once onChannelOpen of a session has run, the session's timer is
\* cancelled and does not fire: it closes no connection, disconnects no socket
\* and sets no timeout status afterwards.
C25_TimeoutCancelled ==
  [][\A s \in 1..Len(sessions) :
       sessions[s].ready > 0 =>
         /\ sessions[s].timer # "pending"
         /\ sessions'[s].timer = sessions[s].timer
         /\ sessions'[s].pc = sessions[s].pc
         /\ sessions'[s].socket = sessions[s].socket
    ]_vars

(***************************************************************************)
(* C26 reset destroys the session                                          *)
(***************************************************************************)
\* C26: a session the user has reset away has no pending timer, its connection
\* is closed and its socket disconnected, and no step of it (timer, channel
\* open, send, completion) changes the state of the screen.
C26_ResetDestroys ==
  [][\A s \in 1..Len(sessions') :
       sessions'[s].abandoned =>
         /\ sessions'[s].timer # "pending"
         /\ sessions'[s].pc = "closed"
         /\ sessions'[s].socket = "disconnected"
         /\ (s <= Len(sessions) /\ sessions[s].abandoned /\ sessions'[s] # sessions[s])
              => ui' = ui
    ]_vars

=============================================================================
